---- MODULE Spec2Model ----
(***************************************************************************)
(* Model of the two batch scripts of the plugins repository:               *)
(*   convert-to-markdown-format.py  (tool.yaml/agent.yaml -> *.md)          *)
(*   embed-system-prompts.py        (SKILL.md -> tool.yaml system_prompt)   *)
(*                                                                         *)
(* Text is a sequence of tokens.  "-", " " and "\n" are single characters; *)
(* every other token is a chunk of text that holds no dash and no          *)
(* whitespace at its ends, so str.strip, str.startswith('---') and         *)
(* str.split('---', 2) see it as one opaque character.                     *)
(*                                                                         *)
(* A YAML value is a tagged record:                                        *)
(*   [kind |-> "null"], [kind |-> "num", n |-> 0..], [kind |-> "str", s],  *)
(*   [kind |-> "list", items], [kind |-> "map", items]                     *)
(* where a mapping's items is a sequence of <<key, value>> pairs in        *)
(* insertion order (a Python dict), keys being unique.                     *)
(***************************************************************************)
EXTENDS Integers, Sequences, FiniteSets, TLC

(* ------------------------------ bounds --------------------------------- *)
\* number of tool directories of the plugin tree of a batch run
MaxTools == 2
\* number of agent directories of the plugin tree of a batch run
MaxAgents == 1

(* ------------------------------ values --------------------------------- *)
Null == [kind |-> "null"]
Num(n) == [kind |-> "num", n |-> n]
Str(s) == [kind |-> "str", s |-> s]
List(xs) == [kind |-> "list", items |-> xs]
Map(ps) == [kind |-> "map", items |-> ps]
EmptyMap == Map(<<>>)
EmptyStr == Str(<<>>)

IsMap(v) == v.kind = "map"
IsStr(v) == v.kind = "str"

\* Python truth value of a loaded YAML value
Truthy(v) ==
  CASE v.kind = "null" -> FALSE
    [] v.kind = "num" -> v.n # 0
    [] v.kind = "str" -> v.s # <<>>
    [] v.kind = "list" -> v.items # <<>>
    [] v.kind = "map" -> v.items # <<>>

(* ---------------------- dict operations (on items) --------------------- *)
Keys(ps) == {ps[i][1] : i \in 1..Len(ps)}
Has(ps, k) == k \in Keys(ps)
IndexOf(ps, k) == CHOOSE i \in 1..Len(ps) : ps[i][1] = k
\* dict.get(k, default)
Get(ps, k, default) == IF Has(ps, k) THEN ps[IndexOf(ps, k)][2] ELSE default
\* d[k] = v : an existing key keeps its position, a new key is appended
Put(ps, k, v) ==
  IF Has(ps, k)
    THEN [i \in 1..Len(ps) |-> IF ps[i][1] = k THEN <<k, v>> ELSE ps[i]]
    ELSE Append(ps, <<k, v>>)
\* the items of d without key k, order kept
Without(ps, k) == SelectSeq(ps, LAMBDA p : p[1] # k)

(* --------------------------- text operations --------------------------- *)
WS == {" ", "\n"}
Delim == <<"-", "-", "-">>

RECURSIVE LStrip(_)
LStrip(s) == IF s # <<>> /\ Head(s) \in WS THEN LStrip(Tail(s)) ELSE s
RECURSIVE RStrip(_)
RStrip(s) ==
  IF s # <<>> /\ s[Len(s)] \in WS THEN RStrip(SubSeq(s, 1, Len(s) - 1)) ELSE s
\* str.strip()
Strip(s) == RStrip(LStrip(s))

\* str.startswith('---')
StartsWithDelim(s) == Len(s) >= 3 /\ SubSeq(s, 1, 3) = Delim

\* index of the leftmost '---' in s at or after position from, 0 when none
FindDelim(s, from) ==
  LET hits == {i \in from..(Len(s) - 2) : SubSeq(s, i, i + 2) = Delim}
  IN IF hits = {} THEN 0 ELSE CHOOSE i \in hits : \A j \in hits : i <= j

\* str.split('---', 2): at most three segments
Split2(s) ==
  LET i == FindDelim(s, 1)
  IN IF i = 0 THEN <<s>>
     ELSE LET j == FindDelim(s, i + 3)
          IN IF j = 0
               THEN <<SubSeq(s, 1, i - 1), SubSeq(s, i + 3, Len(s))>>
               ELSE <<SubSeq(s, 1, i - 1), SubSeq(s, i + 3, j - 1),
                      SubSeq(s, j + 3, Len(s))>>

\* whether text needle occurs in text s (Python's  needle in s  on strings)
Occurs(needle, s) ==
  \E i \in 1..(Len(s) - Len(needle) + 1) :
    SubSeq(s, i, i + Len(needle) - 1) = needle

\* str.replace('-', ' ')
DashToSpace(s) == [i \in 1..Len(s) |-> IF s[i] = "-" THEN " " ELSE s[i]]

Lower == {"a", "t"}
Upper == {"A", "T"}
Up(c) == CASE c = "a" -> "A" [] c = "t" -> "T" [] OTHER -> c
Low(c) == CASE c = "A" -> "a" [] c = "T" -> "t" [] OTHER -> c
\* str.title(): a cased character is upper-cased after an uncased one
\* (or at the start) and lower-cased after a cased one
Title(s) ==
  [i \in 1..Len(s) |->
     IF i > 1 /\ s[i - 1] \in (Lower \cup Upper) THEN Low(s[i]) ELSE Up(s[i])]

(* ------------------------------- YAML ---------------------------------- *)
\* chunks of text that are one line of a YAML block mapping
EntryTokens == {"name: s", "description: d", "model: m", "tags: g"}
EntryOf(tok) ==
  CASE tok = "name: s" -> <<"name", Str(<<"s">>)>>
    [] tok = "description: d" -> <<"description", Str(<<"d">>)>>
    [] tok = "model: m" -> <<"model", Str(<<"m">>)>>
    [] tok = "tags: g" -> <<"tags", Str(<<"g">>)>>

\* lines  k: v  separated by single newlines
IsEntryLines(seg) ==
  /\ Len(seg) % 2 = 1
  /\ \A i \in 1..Len(seg) :
       IF i % 2 = 1 THEN seg[i] \in EntryTokens ELSE seg[i] = "\n"

\* the dict PyYAML constructs from the pairs of a mapping node: a repeated
\* key keeps its first position and takes its last value
RECURSIVE Construct(_, _)
Construct(pairs, acc) ==
  IF pairs = <<>> THEN acc
  ELSE Construct(Tail(pairs), Put(acc, Head(pairs)[1], Head(pairs)[2]))

\* yaml.safe_load of a text: [raised |-> TRUE] stands for yaml.YAMLError.
\* Defined on the texts the model draws: the empty document, the scalar 0,
\* block mappings of one-line entries, plain scalars (which may run over
\* several lines), and malformed documents: an unclosed "{", two entries on
\* one line, an entry followed by a line that is no entry.
YamlLoadText(seg) ==
  CASE seg = <<>> -> [raised |-> FALSE, value |-> Null]
    [] seg = <<"0">> -> [raised |-> FALSE, value |-> Num(0)]
    [] seg # <<>> /\ IsEntryLines(seg) ->
         [raised |-> FALSE,
          value |-> Map(Construct([k \in 1..((Len(seg) + 1) \div 2) |->
                                     EntryOf(seg[2 * k - 1])], <<>>))]
    [] seg \notin {<<>>, <<"0">>}
         /\ \A k \in 1..Len(seg) : seg[k] \in {"t", "0"} \cup WS ->
         [raised |-> FALSE, value |-> Str(seg)]
    [] OTHER -> [raised |-> TRUE, value |-> Null]

\* A YAML file's content: [syntax |-> "invalid"] does not parse;
\* [syntax |-> "ok", node |-> v] is a document whose root node is v, a mapping
\* node holding its pairs as written (a key may repeat).
InvalidDoc == [syntax |-> "invalid", node |-> Null]
Doc(v) == [syntax |-> "ok", node |-> v]

\* yaml.safe_load of a YAML file
YamlLoad(doc) ==
  IF doc.syntax = "invalid" THEN [raised |-> TRUE, value |-> Null]
  ELSE [raised |-> FALSE,
        value |-> IF IsMap(doc.node) THEN Map(Construct(doc.node.items, <<>>))
                  ELSE doc.node]

\* yaml.dump(data, sort_keys=False): the pairs in insertion order
YamlDump(v) == Doc(v)

(* ------------------- parse_embedded_skill_md --------------------------- *)
\* [frontmatter, body]: the pair the function returns
ParseEmbeddedSkillMd(content) ==
  IF ~StartsWithDelim(Strip(content))
    THEN [frontmatter |-> EmptyMap, body |-> Strip(content)]
  ELSE LET parts == Split2(content)
       IN IF Len(parts) < 3
            THEN [frontmatter |-> EmptyMap, body |-> Strip(content)]
            ELSE LET loaded == YamlLoadText(Strip(parts[2]))
                     frontmatter ==
                       IF loaded.raised THEN EmptyMap
                       ELSE IF Truthy(loaded.value) THEN loaded.value
                       ELSE EmptyMap
                 IN [frontmatter |-> frontmatter, body |-> Strip(parts[3])]

(* ------------------------------ files ---------------------------------- *)
\* A YAML file on disk: whether open(path, 'r') and open(path, 'w') succeed,
\* and its content.
YamlFile(r, w, doc) == [readable |-> r, writable |-> w, doc |-> doc]
\* A Markdown file written by a converter: the dumped frontmatter between the
\* two delimiter lines, then the text written after the blank line.
NoMd == [exists |-> FALSE, frontmatter |-> Doc(Null), text |-> <<>>]
Md(frontmatter, text) ==
  [exists |-> TRUE, frontmatter |-> YamlDump(Map(frontmatter)), text |-> text]

\* f"# {name.replace('-', ' ').title()}\n\n{note}"
Placeholder(name, note) ==
  <<"#", " ">> \o Title(DashToSpace(name)) \o <<"\n", "\n", note>>
UtilityNote == "Utility tool with no system prompt."
NoContentNote == "(No content)"

\* the result of a converter call: outcome "ok" is (True, ...), "fail" is
\* (False, ...), "raise" is an exception leaving the function; frontmatter
\* and body are the locals handed to the writer, md the file after the call
Returned(outcome, message, frontmatter, body, md) ==
  [outcome |-> outcome, message |-> message, frontmatter |-> frontmatter,
   body |-> body, md |-> md]
Raised(md) == Returned("raise", "AttributeError", <<>>, Null, md)

\* the with-block that writes the .md file; body is a YAML value, and
\* f.write of a value that is no str raises inside the try, after the
\* frontmatter was written
WriteMd(frontmatter, body, mdWritable, md, name) ==
  IF ~mdWritable
    THEN Returned("fail", "Failed to write MD", frontmatter, body, md)
  ELSE IF ~IsStr(body)
    THEN Returned("fail", "Failed to write MD", frontmatter, body,
                  Md(frontmatter, <<>>))
  ELSE Returned("ok", name, frontmatter, body,
                Md(frontmatter, body.s \o <<"\n">>))

(* ---------------------- convert_tool_yaml_to_md ------------------------ *)
\* lines 104-110: the implementation entry of the frontmatter
CleanImplementation(impl) ==
  IF Get(impl.items, "type", Null) = Str(<<"embedded">>)
    THEN Map(Put(impl.items, "type", Str(<<"bash">>)))
    ELSE impl

\* lines 77-81: the record has no (or an empty) system_prompt
ToolWithoutPrompt(tool_data, tool_name, mdWritable, md) ==
  LET frontmatter == Without(tool_data.items, "system_prompt")
      name == Get(tool_data.items, "name", Str(tool_name))
  IN IF ~IsStr(name) THEN Raised(md)
     ELSE WriteMd(frontmatter, Str(Placeholder(name.s, UtilityNote)),
                  mdWritable, md, "Converted to tool.md")

\* lines 87-92: the four keys every tool.md of this branch starts with
BaseFrontmatter(td, sf, tool_name) ==
  << <<"name", Get(td, "name", Str(tool_name))>>,
     <<"type", Str(<<"tool">>)>>,
     <<"description", Get(td, "description", Get(sf, "description", EmptyStr))>>,
     <<"version", Get(td, "version", Str(<<"1.0.0">>))>> >>
\* lines 94-98
WithTags(f, td, sf) ==
  IF Has(td, "tags") THEN Put(f, "tags", Get(td, "tags", Null))
  ELSE IF Has(sf, "tags") THEN Put(f, "tags", Get(sf, "tags", Null))
  ELSE f
\* lines 100-102
WithParameters(f, td) ==
  IF Has(td, "input_schema") THEN Put(f, "parameters", Get(td, "input_schema", Null))
  ELSE f
\* lines 104-110
WithImplementation(f, td) ==
  IF Has(td, "implementation")
    THEN Put(f, "implementation", CleanImplementation(Get(td, "implementation", Null)))
    ELSE f
\* lines 112-116
WithLlm(f, sf) ==
  IF Has(sf, "model")
    THEN Put(f, "llm",
             Map(Put(IF Has(f, "llm") THEN Get(f, "llm", Null).items ELSE <<>>,
                     "model", Get(sf, "model", Null))))
    ELSE f
\* line 119
ToolBody(skill_body, tool_name) ==
  IF skill_body # <<>> THEN skill_body ELSE Placeholder(tool_name, NoContentNote)

\* lines 83-119: the record embeds a skill document
ToolWithPrompt(tool_data, system_prompt, tool_name, mdWritable, md) ==
  IF ~IsStr(system_prompt) THEN Raised(md)
  ELSE
    LET skill == ParseEmbeddedSkillMd(system_prompt.s)
        td == tool_data.items
    IN IF ~IsMap(skill.frontmatter) THEN Raised(md)
       ELSE IF Has(td, "implementation") /\ ~IsMap(Get(td, "implementation", Null))
         THEN Raised(md)
       ELSE WriteMd(WithLlm(WithImplementation(WithParameters(
                      WithTags(BaseFrontmatter(td, skill.frontmatter.items, tool_name),
                               td, skill.frontmatter.items), td), td),
                      skill.frontmatter.items),
                    Str(ToolBody(skill.body, tool_name)), mdWritable, md,
                    "Converted to tool.md")

\* convert_tool_yaml_to_md(tool_yaml_path): file is tool.yaml, tool_name the
\* directory's name, md the tool.md beside it before the call
ConvertToolYamlToMd(file, tool_name, mdWritable, md) ==
  LET loaded == YamlLoad(file.doc)
  IN IF ~file.readable \/ loaded.raised
       THEN Returned("fail", "Failed to read YAML", <<>>, Null, md)
     ELSE IF ~IsMap(loaded.value) THEN Raised(md)
     ELSE LET system_prompt == Get(loaded.value.items, "system_prompt", EmptyStr)
          IN IF ~Truthy(system_prompt)
               THEN ToolWithoutPrompt(loaded.value, tool_name, mdWritable, md)
               ELSE ToolWithPrompt(loaded.value, system_prompt, tool_name,
                                   mdWritable, md)

(* ---------------------- convert_agent_yaml_to_md ----------------------- *)
\* a slip that sets type and version whether or not the record has them
EnsureRequiredOverwrites(f) ==
  Put(Put(f, "type", Str(<<"agent">>)), "version", Str(<<"1.0.0">>))
\* lines 161-165: type and version are added where the record lacks them
EnsureKey(f, k, v) == IF Has(f, k) THEN f ELSE Put(f, k, v)
EnsureRequired(f) ==
  EnsureKey(EnsureKey(f, "type", Str(<<"agent">>)), "version", Str(<<"1.0.0">>))

\* convert_agent_yaml_to_md(agent_yaml_path)
ConvertAgentYamlToMd(file, agent_name, mdWritable, md) ==
  LET loaded == YamlLoad(file.doc)
  IN IF ~file.readable \/ loaded.raised
       THEN Returned("fail", "Failed to read YAML", <<>>, Null, md)
     ELSE IF ~IsMap(loaded.value) THEN Raised(md)
     ELSE
       LET system_prompt == Get(loaded.value.items, "system_prompt", EmptyStr)
           f0 == Without(loaded.value.items, "system_prompt")
           f2 == EnsureRequired(f0)
           body == IF Truthy(system_prompt) THEN system_prompt
                   ELSE Str(Placeholder(agent_name, NoContentNote))
       IN WriteMd(f2, body, mdWritable, md, "Converted to agent.md")

(* ------------------------- embed_system_prompt ------------------------- *)
\* str(value): Python's repr of a loaded YAML value, as text; a key or a
\* string's content is spelled between quotes (numbers are 0 or 1)
RECURSIVE Repr(_)
RECURSIVE ReprItems(_, _)
Repr(v) ==
  CASE v.kind = "null" -> <<"None">>
    [] v.kind = "num" -> <<IF v.n = 0 THEN "0" ELSE "1">>
    [] v.kind = "str" -> <<"'">> \o v.s \o <<"'">>
    [] v.kind = "list" -> <<"[">> \o ReprItems(v.items, FALSE) \o <<"]">>
    [] v.kind = "map" -> <<"{">> \o ReprItems(v.items, TRUE) \o <<"}">>
ReprItems(xs, keyed) ==
  IF xs = <<>> THEN <<>>
  ELSE (IF keyed THEN <<"'", Head(xs)[1], "'", ":", " ">> \o Repr(Head(xs)[2])
        ELSE Repr(Head(xs)))
       \o (IF Len(xs) > 1 THEN <<",", " ">> ELSE <<>>)
       \o ReprItems(Tail(xs), keyed)

\* line 23:  'skill_directory' in str(tool_data.get('implementation', {}))
MentionsSkillDirectory(tool_data) ==
  Occurs(<<"skill_directory">>, Repr(Get(tool_data.items, "implementation", EmptyMap)))

\* a slip that leaves the skill_directory marker in the rewritten field
EmbeddedImplementationKeepsMarker ==
  Map(<< <<"type", Str(<<"embedded">>)>>,
         <<"skill_directory", Str(<<"scripts">>)>> >>)
\* lines 30-33
EmbeddedImplementation ==
  Map(<< <<"type", Str(<<"embedded">>)>>,
         <<"scripts_directory", Str(<<"scripts">>)>> >>)

\* a SKILL.md on disk
SkillFile(r, text) == [readable |-> r, text |-> text]

\* lines 26-33: the record as updated in memory
EmbedInto(tool_data, skill_content) ==
  Map(Put(Put(tool_data.items, "system_prompt", Str(skill_content)),
          "implementation", EmbeddedImplementation))

\* a slip that looks for the key skill_directory instead of searching the
\* serialized implementation
EmbedGuardByKey(tool_data) ==
  /\ Has(tool_data.items, "implementation")
  /\ ~(/\ IsMap(Get(tool_data.items, "implementation", Null))
       /\ Has(Get(tool_data.items, "implementation", Null).items, "skill_directory"))
\* line 23: the guard that skips a record
EmbedGuard(tool_data) ==
  Has(tool_data.items, "implementation") /\ ~MentionsSkillDirectory(tool_data)

\* embed_system_prompt(tool_yaml_path, skill_md_path): outcome "updated" is
\* (True, "Updated"), "skipped" is (False, "No skill_directory reference"),
\* "raise" an exception leaving the function; file is tool.yaml after the call
EmbedSystemPrompt(file, skill) ==
  LET loaded == YamlLoad(file.doc)
  IN IF ~skill.readable \/ ~file.readable \/ loaded.raised
       THEN [outcome |-> "raise", message |-> "read", file |-> file]
     ELSE IF ~IsMap(loaded.value)
       THEN [outcome |-> "raise", message |-> "TypeError", file |-> file]
     ELSE IF EmbedGuard(loaded.value)
       THEN [outcome |-> "skipped", message |-> "No skill_directory reference",
             file |-> file]
     ELSE IF ~file.writable
       THEN [outcome |-> "raise", message |-> "write", file |-> file]
     ELSE [outcome |-> "updated", message |-> "Updated",
           file |-> [file EXCEPT
                       !.doc = YamlDump(EmbedInto(loaded.value, skill.text))]]

(* ------------------------- inputs of the model ------------------------- *)
Opt(k, vals) == {<<>>} \cup {<< <<k, v>> >> : v \in vals}
Txt(tok) == Str(<<tok>>)

\* directory names
DirNames == {<<"a", "-", "t", "A">>}

\* a skill document: lead, opening delimiter, frontmatter text, closing
\* delimiter, body text
FmTexts ==
  { <<>>, <<"\n", "name: s", "\n">>,
    <<"\n", "description: d", "\n", "model: m", "\n", "tags: g", "\n">>,
    <<"\n", "t", "\n">>, <<"\n", "{", "\n">>,
    <<"\n", "0", "\n">>, <<"\n", "name: s", "model: m", "\n">> }
BodyTexts == { <<>>, <<"\n">>, <<"\n", "t", "\n">>, <<"t", "-", "-", "-", "t">> }
SkillDocs ==
  { lead \o open \o fm \o close \o body :
      lead \in {<<>>, <<"\n">>}, open \in {<<>>, Delim}, fm \in FmTexts,
      close \in {<<>>, Delim}, body \in BodyTexts }
\* the skill documents embedded in the tool records of the model
PromptDocs ==
  { Delim \o fm \o Delim \o body : fm \in FmTexts, body \in {<<>>, <<"\n", "t">>} }
    \cup { <<"t", "\n">> }

ImplSkill ==
  Map(<< <<"type", Txt("skill")>>, <<"skill_directory", Txt("../skills")>> >>)
ImplBash == Map(<< <<"type", Txt("bash")>>, <<"command", Txt("run")>> >>)
ImplNote == Map(<< <<"type", Txt("bash")>>, <<"note", Txt("skill_directory")>> >>)
ImplNested ==
  Map(<< <<"handler", Map(<< <<"skill_directory", Txt("../skills")>> >>)>> >>)
ImplEmbeddedExtra ==
  Map(<< <<"scripts_directory", Txt("scripts")>>, <<"type", Txt("embedded")>>,
         <<"timeout", Num(1)>> >>)

\* tool records given to convert_tool_yaml_to_md
ToolRecords ==
  { n \o d \o v \o g \o i \o m \o ty \o sp :
      n \in Opt("name", {Str(<<"t", "-", "a">>), Null}),
      d \in Opt("description", {Txt("desc")}),
      v \in Opt("version", {Txt("2.0.0")}),
      g \in Opt("tags", {List(<<Txt("x")>>)}),
      i \in Opt("input_schema", {Map(<< <<"type", Txt("object")>> >>)}),
      m \in Opt("implementation",
                {EmbeddedImplementation, ImplEmbeddedExtra, ImplBash, Txt("bash")}),
      ty \in Opt("type", {Txt("skill")}),
      sp \in Opt("system_prompt", {EmptyStr, Null, Num(1)}) }
ToolRecordsWithDoc ==
  { n \o d \o g \o m \o << <<"system_prompt", Str(p)>> >> :
      n \in Opt("name", {Str(<<"t", "-", "a">>)}),
      d \in Opt("description", {Txt("desc")}),
      g \in Opt("tags", {List(<<Txt("x")>>)}),
      m \in Opt("implementation", {ImplEmbeddedExtra, ImplBash, Txt("bash")}),
      p \in PromptDocs }
  \cup
  { << <<"system_prompt", Str(p)>> >> \o v \o i \o m :
      v \in Opt("version", {Txt("2.0.0")}),
      i \in Opt("input_schema", {Map(<< <<"type", Txt("object")>> >>)}),
      m \in Opt("implementation", {EmbeddedImplementation}),
      p \in PromptDocs }

\* tool.yaml documents that are no mapping, or do not load
OddDocs == {InvalidDoc, Doc(Null), Doc(Txt("implementation")), Doc(List(<<Txt("x")>>))}

ToolYamlFiles ==
  { YamlFile(TRUE, TRUE, Doc(Map(r))) : r \in ToolRecords \cup ToolRecordsWithDoc }
    \cup { YamlFile(TRUE, TRUE, d) : d \in OddDocs }
    \cup { YamlFile(FALSE, TRUE, Doc(EmptyMap)) }

\* agent records given to convert_agent_yaml_to_md; a key may repeat in the file
AgentRecords ==
  { n \o sp \o ty \o v \o x \o sp2 :
      n \in Opt("name", {Txt("ag")}),
      sp \in Opt("system_prompt",
                 {EmptyStr, Null, Num(0), Num(1), Str(<<"t", "\n">>),
                  Str(Delim \o <<"\n", "name: s", "\n">> \o Delim \o <<"\n", "t">>)}),
      ty \in Opt("type", {Txt("agent"), Txt("bot"), Null}),
      v \in Opt("version", {Txt("2.0.0"), Null}),
      x \in Opt("tools", {List(<<Txt("x")>>)}),
      sp2 \in Opt("system_prompt", {Str(<<"t">>)}) }
AgentYamlFiles ==
  { YamlFile(TRUE, TRUE, Doc(Map(r))) : r \in AgentRecords }
    \cup { YamlFile(TRUE, TRUE, d) : d \in OddDocs }
    \cup { YamlFile(FALSE, TRUE, Doc(EmptyMap)) }

\* tool records given to embed_system_prompt
EmbedRecords ==
  { sp \o n \o m \o x :
      sp \in Opt("system_prompt", {Str(<<"o", "l", "d">>)}),
      n \in Opt("name", {Txt("tl")}),
      m \in Opt("implementation",
                {ImplSkill, ImplBash, ImplNote, ImplNested, EmbeddedImplementation,
                 Null, Txt("skill_directory"), EmptyMap}),
      x \in Opt("tags", {List(<<Txt("skill_directory")>>)}) }
EmbedYamlFiles ==
  { YamlFile(TRUE, w, Doc(Map(r))) : r \in EmbedRecords, w \in BOOLEAN }
    \cup { YamlFile(TRUE, TRUE, d) : d \in OddDocs }
    \cup { YamlFile(FALSE, TRUE, Doc(EmptyMap)) }
SkillFiles ==
  { SkillFile(TRUE, <<>>), SkillFile(FALSE, <<>>),
    SkillFile(TRUE, Delim \o <<"\n", "name: s", "\n">> \o Delim \o <<"\n", "t", "\n">>),
    SkillFile(TRUE, <<"skill_directory">>) }

(* ------------------------------- state --------------------------------- *)
VARIABLES
  script,    \* which script runs: "convert", "embed", or "call" (one function call)
  pc,        \* position of main: "tools", "agents", "embed", "done", "crashed"
  run,       \* 1 in the first run of the embedding batch, 2 in the second
  entries,   \* embedding batch: the entries of the tools directories
  tree1,     \* embedding batch: entries as the first run left them
  log,       \* the status lines printed so far in this run, in order
  log1,      \* the status lines of the first run of the embedding batch
  i,         \* index of the next candidate of the current loop
  nTools,    \* number of tool.yaml files (convert) / directory entries (embed)
  nAgents,   \* number of agent.yaml files
  count,     \* the counters of main
  summary,   \* whether the summary block was printed
  exit,      \* the process exit status, -1 while running
  outs,      \* convert: the .md files written so far, in order
  call,      \* a single function call: its name and arguments
  ret        \* a single function call: what it returned, once it has

vars == <<script, pc, run, entries, tree1, log, log1, i, nTools, nAgents, count,
          summary, exit, outs, call, ret>>

ZeroCount ==
  [converted_tools |-> 0, converted_agents |-> 0, updated |-> 0,
   skipped |-> 0, errors |-> 0]

NoCall ==
  [fn |-> "none", content |-> <<>>, file |-> YamlFile(TRUE, TRUE, Doc(Null)),
   name |-> <<>>, mdWritable |-> TRUE, skill |-> SkillFile(TRUE, <<>>)]
NoRet ==
  [done |-> FALSE, parsed |-> [frontmatter |-> EmptyMap, body |-> <<>>],
   conv |-> Returned("none", "", <<>>, Null, NoMd),
   embed |-> [outcome |-> "none", message |-> "",
              file |-> YamlFile(TRUE, TRUE, Doc(Null))]]

(* ----------------------- convert-to-markdown main ---------------------- *)
\* lines 232-237:  return 1 if errors > 0 else 0
ConvertExitStatus(errors) == IF errors > 0 THEN 1 ELSE 0

\* the tool.yaml / agent.yaml files a batch run meets
BatchToolFiles ==
  { YamlFile(TRUE, TRUE, Doc(Map(r))) :
      r \in { << <<"name", Txt("t")>> >>,
              << <<"name", Txt("t")>>, <<"implementation", Txt("bash")>>,
                 <<"system_prompt", Str(<<"t">>)>> >>,
              << <<"system_prompt", Str(Delim \o <<"t">> \o Delim \o <<"t">>)>> >>,
              << <<"system_prompt",
                   Str(Delim \o <<"\n", "name: s", "\n">> \o Delim \o <<"t">>)>> >> } }
    \cup { YamlFile(TRUE, TRUE, d) : d \in {InvalidDoc, Doc(Null)} }
    \cup { YamlFile(FALSE, TRUE, Doc(EmptyMap)) }
BatchAgentFiles ==
  { YamlFile(TRUE, TRUE, Doc(Map(r))) :
      r \in { << <<"name", Txt("ag")>>, <<"system_prompt", Str(<<"t">>)>> >>,
              << <<"system_prompt", Num(1)>> >> } }
    \cup { YamlFile(TRUE, TRUE, d) : d \in {InvalidDoc, Doc(Null)} }

\* one status line
Line(kind, idx, outcome) == [kind |-> kind, idx |-> idx, outcome |-> outcome]

\* lines 197-207: one iteration of the tools loop
ConvertNextTool ==
  /\ script = "convert" /\ pc = "tools" /\ i <= nTools
  /\ \E file \in BatchToolFiles, name \in DirNames, w \in BOOLEAN :
       LET r == ConvertToolYamlToMd(file, name, w, NoMd)
       IN /\ outs' = Append(outs, r.md)
          /\ IF r.outcome = "raise"
               THEN /\ pc' = "crashed" /\ exit' = 1
                    /\ UNCHANGED <<log, count, i>>
               ELSE /\ log' = Append(log, Line("tool", i,
                                 IF r.outcome = "ok" THEN "converted" ELSE "error"))
                    /\ count' = IF r.outcome = "ok"
                         THEN [count EXCEPT !.converted_tools = @ + 1]
                         ELSE [count EXCEPT !.errors = @ + 1]
                    /\ i' = i + 1
                    /\ UNCHANGED <<pc, exit>>
  /\ UNCHANGED <<script, run, entries, tree1, log1, nTools, nAgents, summary,
                 call, ret>>

\* line 209: the tools loop is exhausted
ToolsDone ==
  /\ script = "convert" /\ pc = "tools" /\ i > nTools
  /\ pc' = "agents" /\ i' = 1
  /\ UNCHANGED <<script, run, entries, tree1, log, log1, nTools, nAgents, count,
                 summary, exit, outs, call, ret>>

\* lines 213-223: one iteration of the agents loop
ConvertNextAgent ==
  /\ script = "convert" /\ pc = "agents" /\ i <= nAgents
  /\ \E file \in BatchAgentFiles, name \in DirNames, w \in BOOLEAN :
       LET r == ConvertAgentYamlToMd(file, name, w, NoMd)
       IN /\ outs' = Append(outs, r.md)
          /\ IF r.outcome = "raise"
               THEN /\ pc' = "crashed" /\ exit' = 1
                    /\ UNCHANGED <<log, count, i>>
               ELSE /\ log' = Append(log, Line("agent", i,
                                 IF r.outcome = "ok" THEN "converted" ELSE "error"))
                    /\ count' = IF r.outcome = "ok"
                         THEN [count EXCEPT !.converted_agents = @ + 1]
                         ELSE [count EXCEPT !.errors = @ + 1]
                    /\ i' = i + 1
                    /\ UNCHANGED <<pc, exit>>
  /\ UNCHANGED <<script, run, entries, tree1, log1, nTools, nAgents, summary,
                 call, ret>>

\* lines 225-237: the summary and the return value
ConvertSummary ==
  /\ script = "convert" /\ pc = "agents" /\ i > nAgents
  /\ summary' = TRUE
  /\ exit' = ConvertExitStatus(count.errors)
  /\ pc' = "done"
  /\ UNCHANGED <<script, run, entries, tree1, log, log1, i, nTools, nAgents,
                 count, outs, call, ret>>

(* ----------------------- embed-system-prompts main --------------------- *)
\* a slip that lets a single error pass
EmbedExitStatusOffByOne(errors) == IF errors > 1 THEN 1 ELSE 0
\* lines 94-99:  return 1 if errors > 0 else 0
EmbedExitStatus(errors) == IF errors > 0 THEN 1 ELSE 0

\* An entry of a tools directory of a listed plugin: whether it is a
\* directory, whether it holds tool.yaml, whether skills/<name>/SKILL.md
\* exists, and the two files.
Entry(isDir, hasYaml, hasSkill, file, skill) ==
  [isDir |-> isDir, hasYaml |-> hasYaml, hasSkill |-> hasSkill, file |-> file,
   skill |-> skill]
SkillDoc1 ==
  SkillFile(TRUE, Delim \o <<"\n", "name: s", "\n">> \o Delim \o <<"\n", "t", "\n">>)
NoFile == YamlFile(FALSE, FALSE, Doc(Null))
NoSkill == SkillFile(FALSE, <<>>)
BatchEntries ==
  { Entry(FALSE, FALSE, FALSE, NoFile, NoSkill),
    Entry(TRUE, FALSE, TRUE, NoFile, SkillDoc1),
    Entry(TRUE, TRUE, FALSE,
          YamlFile(TRUE, TRUE, Doc(Map(<< <<"implementation", ImplSkill>> >>))),
          NoSkill),
    Entry(TRUE, TRUE, TRUE,
          YamlFile(TRUE, TRUE, Doc(Map(<< <<"implementation", ImplSkill>> >>))),
          SkillFile(FALSE, <<>>)) }
  \cup
  { Entry(TRUE, TRUE, TRUE, f, SkillDoc1) :
      f \in { YamlFile(TRUE, TRUE,
                Doc(Map(<< <<"name", Txt("tl")>>, <<"implementation", ImplSkill>> >>))),
              YamlFile(TRUE, FALSE,
                Doc(Map(<< <<"name", Txt("tl")>>, <<"implementation", ImplSkill>> >>))),
              YamlFile(TRUE, TRUE, Doc(Map(<< <<"name", Txt("tl")>> >>))),
              YamlFile(TRUE, TRUE,
                Doc(Map(<< <<"name", Txt("tl")>>, <<"name", Txt("tl2")>>,
                           <<"implementation", ImplNote>> >>))),
              YamlFile(TRUE, TRUE, Doc(Map(<< <<"implementation", ImplBash>> >>))),
              YamlFile(TRUE, TRUE, Doc(Null)),
              YamlFile(TRUE, TRUE, InvalidDoc),
              YamlFile(FALSE, TRUE, Doc(EmptyMap)) } }

\* lines 58-85: one iteration of the loop over a tools directory
EmbedNext ==
  /\ script = "embed" /\ pc = "embed" /\ i <= nTools
  /\ LET e == entries[i]
         r == EmbedSystemPrompt(e.file, e.skill)
     IN IF ~e.isDir
          THEN UNCHANGED <<log, count, entries>>
        ELSE IF ~e.hasYaml
          THEN /\ log' = Append(log, Line("entry", i, "no tool.yaml"))
               /\ UNCHANGED <<count, entries>>
        ELSE IF ~e.hasSkill
          THEN /\ log' = Append(log, Line("entry", i, "skipped"))
               /\ count' = [count EXCEPT !.skipped = @ + 1]
               /\ UNCHANGED entries
        ELSE /\ entries' = [entries EXCEPT ![i].file = r.file]
             /\ log' = Append(log, Line("entry", i,
                          IF r.outcome = "raise" THEN "error" ELSE r.outcome))
             /\ count' =
                  CASE r.outcome = "updated" -> [count EXCEPT !.updated = @ + 1]
                    [] r.outcome = "skipped" -> [count EXCEPT !.skipped = @ + 1]
                    [] OTHER -> [count EXCEPT !.errors = @ + 1]
  /\ i' = i + 1
  /\ UNCHANGED <<script, pc, run, tree1, log1, nTools, nAgents, summary, exit,
                 outs, call, ret>>

\* lines 89-99: the summary and the return value
EmbedSummary ==
  /\ script = "embed" /\ pc = "embed" /\ i > nTools
  /\ summary' = TRUE
  /\ exit' = EmbedExitStatus(count.errors)
  /\ pc' = "done"
  /\ UNCHANGED <<script, run, entries, tree1, log, log1, i, nTools, nAgents,
                 count, outs, call, ret>>

\* the script is started again over the tree the first run left
EmbedAgain ==
  /\ script = "embed" /\ pc = "done" /\ run = 1
  /\ run' = 2 /\ pc' = "embed" /\ i' = 1
  /\ tree1' = entries /\ log1' = log
  /\ log' = <<>> /\ count' = ZeroCount /\ summary' = FALSE /\ exit' = -1
  /\ UNCHANGED <<script, entries, nTools, nAgents, outs, call, ret>>

(* ------------------------------ batch runs ----------------------------- *)
RECURSIVE SeqsOf(_, _)
\* the sequences of length n over set S
SeqsOf(S, n) ==
  IF n = 0 THEN {<<>>}
  ELSE {Append(q, x) : q \in SeqsOf(S, n - 1), x \in S}

Init ==
  /\ script \in {"convert", "embed"}
  /\ nTools \in 0..MaxTools
  /\ nAgents \in IF script = "convert" THEN 0..MaxAgents ELSE {0}
  /\ entries \in IF script = "embed" THEN SeqsOf(BatchEntries, nTools) ELSE {<<>>}
  /\ pc = IF script = "convert" THEN "tools" ELSE "embed"
  /\ run = 1 /\ tree1 = <<>> /\ log = <<>> /\ log1 = <<>> /\ i = 1
  /\ count = ZeroCount /\ summary = FALSE /\ exit = -1 /\ outs = <<>>
  /\ call = NoCall /\ ret = NoRet

Next ==
  \/ ConvertNextTool
  \/ ToolsDone
  \/ ConvertNextAgent
  \/ ConvertSummary
  \/ EmbedNext
  \/ EmbedSummary
  \/ EmbedAgain

Spec == Init /\ [][Next]_vars

(* ------------------------- single function calls ----------------------- *)
ParseCalls == {[NoCall EXCEPT !.fn = "parse", !.content = c] : c \in SkillDocs}
ToolCalls ==
  {[NoCall EXCEPT !.fn = "tool", !.file = f, !.name = n, !.mdWritable = w] :
     f \in ToolYamlFiles, n \in DirNames, w \in BOOLEAN}
AgentCalls ==
  {[NoCall EXCEPT !.fn = "agent", !.file = f, !.name = n, !.mdWritable = w] :
     f \in AgentYamlFiles, n \in DirNames, w \in BOOLEAN}
EmbedCalls ==
  {[NoCall EXCEPT !.fn = "embed", !.file = f, !.skill = k] :
     f \in EmbedYamlFiles, k \in SkillFiles}

CallUnchanged ==
  UNCHANGED <<script, pc, run, entries, tree1, log, log1, i, nTools, nAgents,
              count, summary, exit, outs, call>>

CallParse ==
  /\ script = "call" /\ call.fn = "parse" /\ ~ret.done
  /\ ret' = [ret EXCEPT !.done = TRUE,
                        !.parsed = ParseEmbeddedSkillMd(call.content)]
  /\ CallUnchanged

CallTool ==
  /\ script = "call" /\ call.fn = "tool" /\ ~ret.done
  /\ ret' = [ret EXCEPT !.done = TRUE,
                        !.conv = ConvertToolYamlToMd(call.file, call.name,
                                                     call.mdWritable, NoMd)]
  /\ CallUnchanged

CallAgent ==
  /\ script = "call" /\ call.fn = "agent" /\ ~ret.done
  /\ ret' = [ret EXCEPT !.done = TRUE,
                        !.conv = ConvertAgentYamlToMd(call.file, call.name,
                                                      call.mdWritable, NoMd)]
  /\ CallUnchanged

CallEmbed ==
  /\ script = "call" /\ call.fn = "embed" /\ ~ret.done
  /\ ret' = [ret EXCEPT !.done = TRUE,
                        !.embed = EmbedSystemPrompt(call.file, call.skill)]
  /\ CallUnchanged

InitCall ==
  /\ script = "call"
  /\ call \in ParseCalls \cup ToolCalls \cup AgentCalls \cup EmbedCalls
  /\ ret = NoRet
  /\ nTools = 0 /\ nAgents = 0 /\ entries = <<>> /\ pc = "call"
  /\ run = 1 /\ tree1 = <<>> /\ log = <<>> /\ log1 = <<>> /\ i = 1
  /\ count = ZeroCount /\ summary = FALSE /\ exit = -1 /\ outs = <<>>

NextCall == CallParse \/ CallTool \/ CallAgent \/ CallEmbed

SpecCall == InitCall /\ [][NextCall]_vars

(* ============================ properties =============================== *)
\* the record a single call's tool.yaml / agent.yaml loads to
CallRecord == YamlLoad(call.file.doc).value
CallLoadsRecord ==
  call.file.readable /\ ~YamlLoad(call.file.doc).raised /\ IsMap(CallRecord)
\* the record has no system_prompt field, or an empty one
CallHasNoPrompt == ~Truthy(Get(CallRecord.items, "system_prompt", EmptyStr))
ToolConverted ==
  ret.done /\ call.fn = "tool" /\ CallLoadsRecord /\ ret.conv.outcome = "ok"
AgentConverted ==
  ret.done /\ call.fn = "agent" /\ CallLoadsRecord /\ ret.conv.outcome = "ok"

\* C1: when a batch run of either script reaches its end, the exit status is
\* 0 exactly when no item was counted as an error and 1 exactly when at
\* least one was; the count of skipped items plays no part.
C1_ExitStatusIffErrors ==
  pc = "done" =>
    /\ summary
    /\ exit \in {0, 1}
    /\ (exit = 0) <=> (count.errors = 0)
    /\ count.errors = Cardinality({k \in 1..Len(log) : log[k].outcome = "error"})
\* an embedding run that ended with skipped items, no error and status 0
C1_Witness ==
  /\ script = "embed" /\ pc = "done" /\ count.skipped > 0 /\ count.updated > 0
  /\ count.errors = 0 /\ exit = 0

\* C2: no per-item failure is fatal to the batch: a run that has an exit
\* status has printed its summary after processing every candidate.
C2_NoItemFailureIsFatal ==
  exit # -1 =>
    /\ summary
    /\ pc = "done"
    /\ script = "convert" =>
         Len(SelectSeq(log, LAMBDA l : l.kind = "tool")) = nTools
         /\ Len(SelectSeq(log, LAMBDA l : l.kind = "agent")) = nAgents

\* C3: a tool record without system_prompt yields frontmatter whose keys are
\* exactly name, type, description, version, with type "tool", and a body
\* holding the placeholder heading derived from the tool's name.
C3_MinimalFrontmatterWithoutPrompt ==
  (ToolConverted /\ CallHasNoPrompt) =>
    /\ Keys(ret.conv.frontmatter) = {"name", "type", "description", "version"}
    /\ Get(ret.conv.frontmatter, "type", Null) = Str(<<"tool">>)
    /\ Occurs(<<"#", " ">>
                \o Title(DashToSpace(Get(CallRecord.items, "name", Str(call.name)).s)),
              ret.conv.body.s)

\* C4: every document a converter writes has a non-empty body and a
\* frontmatter holding at least the keys type and version.
C4_BodyAndRequiredKeys ==
  (ToolConverted \/ AgentConverted) =>
    /\ IsStr(ret.conv.body) /\ ret.conv.body.s # <<>>
    /\ {"type", "version"} \subseteq Keys(ret.conv.frontmatter)

\* the implementation field of the record of a single call, and of the
\* frontmatter written
CallImpl == Get(CallRecord.items, "implementation", Null)
OutImpl == Get(ret.conv.frontmatter, "implementation", Null)
CallImplEmbedded ==
  /\ Has(CallRecord.items, "implementation") /\ IsMap(CallImpl)
  /\ Get(CallImpl.items, "type", Null) = Str(<<"embedded">>)
\* C5: a tool record whose implementation.type is "embedded", with or
\* without a system_prompt, yields implementation.type "bash" in the
\* frontmatter written, every other implementation sub-field as in the input.
C5_EmbeddedBecomesBash ==
  (ToolConverted /\ CallImplEmbedded) =>
    /\ IsMap(OutImpl)
    /\ Get(OutImpl.items, "type", Null) = Str(<<"bash">>)
    /\ Keys(OutImpl.items) = Keys(CallImpl.items)
    /\ \A k \in Keys(CallImpl.items) \ {"type"} :
         Get(OutImpl.items, k, Null) = Get(CallImpl.items, k, Null)

\* the values that count as an empty system_prompt
EmptyValues == {EmptyStr, Null, Num(0), List(<<>>), EmptyMap}
\* C6: an agent record's frontmatter never holds system_prompt, holds every
\* other input field unchanged, gets type "agent" and version "1.0.0" only
\* where the input has no such key, and the body is the input's
\* system_prompt, or the placeholder when that is absent or empty; this is
\* what the file agent.md receives.
C6_AgentFrontmatterAndBody ==
  AgentConverted =>
    LET rec == CallRecord.items
        fm == ret.conv.frontmatter
        prompt == Get(rec, "system_prompt", EmptyStr)
    IN /\ ~Has(fm, "system_prompt")
       /\ Keys(fm) = (Keys(rec) \ {"system_prompt"}) \cup {"type", "version"}
       /\ \A k \in Keys(rec) \ {"system_prompt"} :
            Get(fm, k, EmptyStr) = Get(rec, k, Null)
       /\ ~Has(rec, "type") => Get(fm, "type", Null) = Str(<<"agent">>)
       /\ ~Has(rec, "version") => Get(fm, "version", Null) = Str(<<"1.0.0">>)
       /\ ret.conv.body =
            IF prompt \notin EmptyValues THEN prompt
            ELSE Str(Placeholder(call.name, NoContentNote))
       /\ ret.conv.md = [exists |-> TRUE, frontmatter |-> Doc(Map(fm)),
                         text |-> ret.conv.body.s \o <<"\n">>]
\* an agent record with its own type and version and a system_prompt that
\* itself starts with a frontmatter block was converted
C6_Witness ==
  /\ AgentConverted
  /\ Get(CallRecord.items, "type", Null) = Str(<<"bot">>)
  /\ Has(CallRecord.items, "version")
  /\ IsStr(Get(CallRecord.items, "system_prompt", EmptyStr))
  /\ StartsWithDelim(Get(CallRecord.items, "system_prompt", EmptyStr).s)
  /\ ret.conv.body = Get(CallRecord.items, "system_prompt", EmptyStr)

\* whether a value holds the text skill_directory: as a key, in a string, or
\* in a nested value
RECURSIVE ValueMentions(_)
ValueMentions(v) ==
  CASE v.kind = "str" -> \E k \in 1..Len(v.s) : v.s[k] = "skill_directory"
    [] v.kind = "map" ->
         \E k \in 1..Len(v.items) :
           v.items[k][1] = "skill_directory" \/ ValueMentions(v.items[k][2])
    [] v.kind = "list" -> \E k \in 1..Len(v.items) : ValueMentions(v.items[k])
    [] OTHER -> FALSE
EmbedCalled == ret.done /\ call.fn = "embed"
\* both files can be read and tool.yaml loads to a record
EmbedInputsLoad == call.skill.readable /\ CallLoadsRecord
\* C7: embed_system_prompt skips, leaving tool.yaml as it was, exactly when
\* the record has an implementation field that does not mention
\* skill_directory; otherwise tool.yaml is rewritten with system_prompt the
\* whole skill text, implementation exactly
\* {type: embedded, scripts_directory: scripts} and every other field as it
\* was.  The call raises, leaving tool.yaml as it was, exactly when a file
\* cannot be read, tool.yaml holds no record, or the rewrite cannot open
\* tool.yaml for writing.
C7_EmbedSkipsOrRewrites ==
  EmbedCalled =>
    LET rec == CallRecord.items
        guard == Has(rec, "implementation")
                 /\ ~ValueMentions(Get(rec, "implementation", Null))
        after == YamlLoad(ret.embed.file.doc).value
    IN /\ ret.embed.outcome \in {"skipped", "updated", "raise"}
       /\ (ret.embed.outcome = "skipped") <=> (EmbedInputsLoad /\ guard)
       /\ (ret.embed.outcome = "updated") <=>
            (EmbedInputsLoad /\ ~guard /\ call.file.writable)
       /\ ret.embed.outcome = "skipped" =>
            ret.embed.message = "No skill_directory reference"
       /\ ret.embed.outcome # "updated" => ret.embed.file = call.file
       /\ ret.embed.outcome = "updated" =>
            /\ IsMap(after)
            /\ Keys(after.items) = Keys(rec) \cup {"system_prompt", "implementation"}
            /\ Get(after.items, "system_prompt", Null) = Str(call.skill.text)
            /\ Get(after.items, "implementation", Null) =
                 Map(<< <<"type", Str(<<"embedded">>)>>,
                        <<"scripts_directory", Str(<<"scripts">>)>> >>)
            /\ \A k \in Keys(rec) \ {"system_prompt", "implementation"} :
                 Get(after.items, k, EmptyStr) = Get(rec, k, Null)
            /\ ret.embed.file.readable = call.file.readable
            /\ ret.embed.file.writable = call.file.writable
\* a record that names skill_directory only inside a nested implementation
\* value, and carries other fields, was rewritten with a skill document that
\* has its own frontmatter
C7_Witness ==
  /\ EmbedCalled /\ ret.embed.outcome = "updated"
  /\ Get(CallRecord.items, "implementation", Null) = ImplNested
  /\ Has(CallRecord.items, "tags") /\ Has(CallRecord.items, "system_prompt")
  /\ StartsWithDelim(call.skill.text)
\* a record whose implementation does not mention skill_directory was skipped
C7_WitnessSkipped ==
  /\ EmbedCalled /\ ret.embed.outcome = "skipped"
  /\ Get(CallRecord.items, "implementation", Null) = ImplBash

ParseCalled == ret.done /\ call.fn = "parse"
\* C8: parse_embedded_skill_md returns a mapping and a trimmed body: the
\* empty mapping and the trimmed full text when the text does not start with
\* the delimiter or splits into fewer than three segments; otherwise the
\* parsed first segment when it parses to a mapping, the empty mapping when
\* it does not, and the trimmed remainder.
C8_ParseReturnsMapping ==
  ParseCalled =>
    LET text == call.content
        parts == Split2(text)
        loaded == YamlLoadText(Strip(parts[2]))
    IN /\ IsMap(ret.parsed.frontmatter)
       /\ IF ~StartsWithDelim(Strip(text)) \/ Len(parts) < 3
            THEN /\ ret.parsed.frontmatter = EmptyMap
                 /\ ret.parsed.body = Strip(text)
            ELSE /\ ret.parsed.frontmatter =
                      IF ~loaded.raised /\ IsMap(loaded.value) THEN loaded.value
                      ELSE EmptyMap
                 /\ ret.parsed.body = Strip(parts[3])

\* the embedded skill document of the record of a single call
CallPrompt == Get(CallRecord.items, "system_prompt", EmptyStr)
CallSkill == ParseEmbeddedSkillMd(CallPrompt.s).frontmatter.items
\* C9: for a tool record with a non-empty system_prompt the name written is
\* the record's name, else the name of the embedded skill document's
\* frontmatter, else the directory name.
C9_NameFallsBackToSkill ==
  (ToolConverted /\ ~CallHasNoPrompt) =>
    Get(ret.conv.frontmatter, "name", Null) =
      IF Has(CallRecord.items, "name") THEN Get(CallRecord.items, "name", Null)
      ELSE IF Has(CallSkill, "name") THEN Get(CallSkill, "name", Null)
      ELSE Str(call.name)

\* the indices of the entries a run reported with the given outcome
Reported(lines, outcome) ==
  {lines[k].idx : k \in {j \in 1..Len(lines) : lines[j].outcome = outcome}}
\* C10: a second run of the embedding batch over the tree the first run left
\* updates no tool, skips every tool the first run updated, and leaves every
\* tool.yaml as the first run left it.
C10_SecondRunChangesNothing ==
  (script = "embed" /\ run = 2) =>
    /\ entries = tree1
    /\ count.updated = 0
    /\ pc = "done" =>
         /\ Reported(log1, "updated") \subseteq Reported(log, "skipped")
         /\ Reported(log, "updated") = {}
\* the second run ended over a tree in which the first run updated a tool,
\* skipped another and failed on none
C10_Witness ==
  /\ script = "embed" /\ run = 2 /\ pc = "done"
  /\ Reported(log1, "updated") # {}
  /\ Reported(log1, "skipped") # {}
  /\ count.skipped = nTools

====
